---- MODULE Spec2Model ----
(***************************************************************************)
(* Model of package cruncher (cruncher.go): the Accumulator, its Add,      *)
(* Summarize, GetStats and Print operations, IntStats.GetTermFrequency,    *)
(* the remedian cascade, the frequency distribution and the                *)
(* value-frequency map.                                                    *)
(*                                                                         *)
(* int64 is modelled as a two's complement integer of IntBits bits and     *)
(* float64 as a binary floating point number with a significand of         *)
(* FloatBits bits, so that the wrap-around of total and of Max - Min and   *)
(* the rounding of float64(int64) are reachable with small values.  Slices *)
(* and maps are references into the heaps `slices' and `maps', so that a   *)
(* struct copy (GetStats) shares them with the live accumulator as in Go.  *)
(* A runtime panic ends the run: pc becomes "panicked" and the variables   *)
(* keep what the call had assigned before it failed.  What Print writes    *)
(* is not modelled, only the Summarize it runs.                            *)
(***************************************************************************)
EXTENDS Integers, Sequences, FiniteSets, TLC

\* ------------------------------------------------------------------ bounds
\* width of the modelled int64 and of the significand of the modelled float64
IntBits == 5
FloatBits == 3
\* number of Add calls in one run
MaxAdds == 3
\* number of Summarize / GetStats / Print / GetTermFrequency calls in one run
MaxObserve == 2
\* largest appoximationWindow and buckets passed to NewAccumulator
MaxWindow == 3
MaxBuckets == 2
\* number of Add calls in one run of a long stream
MaxCascadeAdds == 9
\* largest topN passed to GetTermFrequency
MaxTopN == 2

\* ------------------------------------------------------- int64 arithmetic
Modulus == 2 ^ IntBits
MaxInt64 == 2 ^ (IntBits - 1) - 1
MinInt64 == -(2 ^ (IntBits - 1))

\* two's complement wrap-around of +, - and ++ on int64
Wrap(x) == ((x - MinInt64) % Modulus) + MinInt64

Abs(x) == IF x < 0 THEN -x ELSE x

\* Go's integer division truncates toward zero (b # 0)
GoDiv(a, b) ==
    LET q == Abs(a) \div Abs(b)
    IN  IF (a < 0) = (b < 0) THEN q ELSE -q

\* ------------------------------------------------------------- float64
\* float64 is modelled as binary floating point with a significand of
\* FloatBits bits, rounding to nearest, ties to even (the exponent range is
\* never exhausted by values derived from an int64).

\* p / q (p > 0, q > 0) as <<n, d, e>> with p / q = (n / d) * 2^e and
\* 2^(FloatBits - 1) <= n / d < 2^FloatBits
RECURSIVE Normalize(_, _, _)
Normalize(n, d, e) ==
    IF n >= (2 ^ FloatBits) * d THEN Normalize(n, 2 * d, e + 1)
    ELSE IF n < (2 ^ (FloatBits - 1)) * d THEN Normalize(2 * n, d, e - 1)
    ELSE <<n, d, e>>

\* the float64 nearest to p / q (p > 0, q > 0), as <<significand, exponent>>
RoundQuot(p, q) ==
    LET nde == Normalize(p, q, 0)
        sig == nde[1] \div nde[2]
        rem == nde[1] % nde[2]
        up == IF 2 * rem > nde[2] \/ (2 * rem = nde[2] /\ sig % 2 = 1)
              THEN 1 ELSE 0
    IN  <<sig + up, nde[3]>>

\* math.Floor and math.Ceil of the positive float64 <<significand, exponent>>
FloorOf(f) ==
    IF f[2] >= 0 THEN f[1] * (2 ^ f[2]) ELSE f[1] \div (2 ^ (-f[2]))
CeilOf(f) ==
    IF f[2] >= 0 THEN f[1] * (2 ^ f[2]) ELSE -((-f[1]) \div (2 ^ (-f[2])))

\* float64(x) for an integer x: the value of the nearest float64
Float64(x) ==
    IF x = 0 THEN 0
    ELSE IF x > 0 THEN FloorOf(RoundQuot(x, 1))
    ELSE -FloorOf(RoundQuot(-x, 1))

\* A float64 to integer conversion of a value the integer type cannot
\* represent (out of range, +Inf, -Inf, NaN) succeeds with an
\* implementation-dependent result: amd64 yields the minimum integer, arm64
\* saturates and turns NaN into 0.  sign is 1, -1, or 0 for NaN.
Float2IntModes == {"amd64", "arm64"}

Unrepresentable(sign, conv) ==
    IF conv = "amd64" THEN MinInt64
    ELSE IF sign > 0 THEN MaxInt64
    ELSE IF sign < 0 THEN MinInt64
    ELSE 0

Sign(x) == IF x > 0 THEN 1 ELSE IF x < 0 THEN -1 ELSE 0

\* int64(f) for an integral float64 f
IntOfFloat(f, conv) ==
    IF f >= MinInt64 /\ f <= MaxInt64 THEN f ELSE Unrepresentable(Sign(f), conv)

\* int64(math.Ceil(float64(x) / float64(y)))
CeilQuot(x, y, conv) ==
    LET a == Float64(x)
        b == Float64(y)
    IN  IF b = 0 THEN Unrepresentable(Sign(a), conv)
        ELSE IF a = 0 THEN 0
        ELSE IF (a > 0) = (b > 0)
        THEN IntOfFloat(CeilOf(RoundQuot(Abs(a), Abs(b))), conv)
        ELSE IntOfFloat(-FloorOf(RoundQuot(Abs(a), Abs(b))), conv)

\* int(math.Floor(float64(x) / float64(y)))
FloorQuot(x, y, conv) ==
    LET a == Float64(x)
        b == Float64(y)
    IN  IF b = 0 THEN Unrepresentable(Sign(a), conv)
        ELSE IF a = 0 THEN 0
        ELSE IF (a > 0) = (b > 0)
        THEN IntOfFloat(FloorOf(RoundQuot(Abs(a), Abs(b))), conv)
        ELSE IntOfFloat(-CeilOf(RoundQuot(Abs(a), Abs(b))), conv)

\* ------------------------------------------------------------ sequences
RECURSIVE Insert(_, _)
Insert(s, v) ==
    IF s = <<>> THEN <<v>>
    ELSE IF v < Head(s) THEN <<v>> \o s
    ELSE <<Head(s)>> \o Insert(Tail(s), v)

\* sort.Sort(int64arr(values)): ascending order
RECURSIVE SortInt64(_)
SortInt64(s) == IF s = <<>> THEN <<>> ELSE Insert(SortInt64(Tail(s)), Head(s))

Zeros(n) == [i \in 1..n |-> 0]

\* ---------------------------------------------------------------- state
VARIABLES
    pc,                 \* "new", "ready" or "panicked"
    failure,            \* the runtime failure that ended the run, or "none"
    appoximationWindow, \* Accumulator.appoximationWindow
    buckets,            \* Accumulator.buckets
    intStats,           \* Accumulator.intStats
    remedians,          \* Accumulator.remedians
    total,              \* Accumulator.total
    slices,             \* heap of the []int64 made for FrequencyDistribution
    maps,               \* heap of the map[int64]int64 made for ValueFrequency
    snapshot,           \* the IntStats the last GetStats returned
    snapshotView,       \* what that IntStats showed when GetStats returned
    added,              \* the values passed to Add, in order
    observes,           \* number of Summarize / GetStats / Print /
                        \* GetTermFrequency calls
    lastOp,             \* the last call: "NewAccumulator", "Add", "Summarize"
                        \* (also for GetStats and Print) or "GetTermFrequency"
    previous,           \* <<what the statistics showed before this call>>
                        \* when this call and the one before it are both
                        \* Summarize / GetStats / Print calls, else <<>>
    summarizedEarly,    \* a Summarize / GetStats / Print call was made
                        \* while Count < appoximationWindow
    topN,               \* the argument of GetTermFrequency and
    termFrequency       \* the PairList it returned, when it is the last call

vars == <<pc, failure, appoximationWindow, buckets, intStats, remedians,
          total, slices, maps, snapshot, snapshotView, added, observes,
          lastOp, previous, summarizedEarly, topN, termFrequency>>

\* a nil slice or a nil map
Nil == 0

\* the zero value of IntStats
ZeroIntStats ==
    [Min |-> 0, Max |-> 0, Count |-> 0, Mean |-> 0, Median |-> 0,
     FrequencyDistribution |-> Nil, BucketSize |-> 0,
     FrequencyDistributionStartingValue |-> 0,
     OutlierBefore |-> 0, OutlierAfter |-> 0, ValueFrequency |-> Nil]

\* the mutable part of the program, threaded through the steps of a call
Machine ==
    [intStats |-> intStats, remedians |-> remedians, total |-> total,
     slices |-> slices, maps |-> maps, failure |-> "none"]

\* the elements of a slice and the entries of a map; nil has none
SliceOf(heap, ref) == IF ref = Nil THEN <<>> ELSE heap[ref]
MapOf(heap, ref) == IF ref = Nil THEN <<>> ELSE heap[ref]

\* an IntStats with its slice and its map read through the heaps
View(is, sl, mp) ==
    [is EXCEPT !.FrequencyDistribution = SliceOf(sl, is.FrequencyDistribution),
               !.ValueFrequency = MapOf(mp, is.ValueFrequency)]

\* the values NewAccumulator and Add are called with
Windows == 0 .. MaxWindow
Buckets == 0 .. MaxBuckets
Values == {-1, 0, MaxInt64}

Init ==
    /\ pc = "new"
    /\ failure = "none"
    /\ appoximationWindow = 0
    /\ buckets = 0
    /\ intStats = ZeroIntStats
    /\ remedians = <<>>
    /\ total = 0
    /\ slices = <<>>
    /\ maps = <<>>
    /\ snapshot = ZeroIntStats
    /\ snapshotView = View(ZeroIntStats, <<>>, <<>>)
    /\ added = <<>>
    /\ observes = 0
    /\ lastOp = "none"
    /\ previous = <<>>
    /\ summarizedEarly = FALSE
    /\ topN = 0
    /\ termFrequency = <<>>

\* any call but GetTermFrequency
NoTermFrequency == topN' = 0 /\ termFrequency' = <<>>

\* ------------------------------------------------------- NewAccumulator
NewAccumulator(window, nbuckets) ==
    /\ pc = "new"
    /\ pc' = "ready"
    /\ appoximationWindow' = window
    /\ remedians' = <<>>
    /\ buckets' = nbuckets
    /\ lastOp' = "NewAccumulator"
    /\ UNCHANGED <<failure, intStats, total, slices, maps, snapshot,
                   snapshotView, added, observes, previous,
                   summarizedEarly>>
    /\ NoTermFrequency

\* ------------------------------------------------ frequency distribution
incrementFrequencyDistribution(m, value, conv) ==
    LET is == m.intStats
        fd == is.FrequencyDistribution
        offset == FloorQuot(Wrap(value - is.FrequencyDistributionStartingValue),
                            is.BucketSize, conv)
    IN  IF offset < 0
        THEN [m EXCEPT !.intStats.OutlierBefore = Wrap(@ + 1)]
        ELSE IF offset >= Len(SliceOf(m.slices, fd))
        THEN [m EXCEPT !.intStats.OutlierAfter = Wrap(@ + 1)]
        ELSE [m EXCEPT !.slices[fd][offset + 1] = Wrap(@ + 1)]

\* for _, v := range values { a.incrementFrequencyDistribution(v) }, on
\* the one machine state in ms; the result is again a one-element set
RECURSIVE incrementAll(_, _, _)
incrementAll(ms, values, conv) ==
    IF values = <<>> THEN ms
    ELSE incrementAll(
             {incrementFrequencyDistribution(m, Head(values), conv) : m \in ms},
             Tail(values), conv)

\* the element of a one-element set
The(set) == CHOOSE x \in set : TRUE

\* initializeFrequencyDistribution counting into the slice it already has
\* instead of a new one
initializeFrequencyDistributionReuse(m, conv) ==
    LET m1 == [m EXCEPT !.intStats.OutlierAfter = 0,
                        !.intStats.OutlierBefore = 0]
        diff == Wrap(m1.intStats.Max - m1.intStats.Min)
        fresh == m1.intStats.FrequencyDistribution = Nil
        m2 == [m1 EXCEPT
                 !.slices = IF fresh THEN Append(@, Zeros(buckets)) ELSE @,
                 !.intStats.FrequencyDistribution =
                     IF fresh THEN Len(m1.slices) + 1 ELSE @,
                 !.intStats.FrequencyDistributionStartingValue =
                     m1.intStats.Min,
                 !.intStats.BucketSize =
                     CeilQuot(Wrap(diff + 1), buckets, conv)]
    IN  IF Len(m.remedians) = 0
        THEN [m2 EXCEPT !.failure = "index out of range"]
        ELSE The(incrementAll({m2}, m.remedians[1], conv))

initializeFrequencyDistribution(m, conv) ==
    LET m1 == [m EXCEPT !.intStats.OutlierAfter = 0,
                        !.intStats.OutlierBefore = 0]
        diff == Wrap(m1.intStats.Max - m1.intStats.Min)
        m2 == [m1 EXCEPT
                 !.slices = Append(@, Zeros(buckets)),
                 !.intStats.FrequencyDistribution = Len(m1.slices) + 1,
                 !.intStats.FrequencyDistributionStartingValue =
                     m1.intStats.Min,
                 !.intStats.BucketSize =
                     CeilQuot(Wrap(diff + 1), buckets, conv)]
    IN  IF Len(m.remedians) = 0
        THEN [m2 EXCEPT !.failure = "index out of range"]
        ELSE The(incrementAll({m2}, m.remedians[1], conv))

\* -------------------------------------------------------------- remedian
\* computeMedian returning the element below the middle for an even length
computeMedianLow(values) ==
    LET sorted == SortInt64(values)
    IN  [sorted |-> sorted, min |-> sorted[1], max |-> sorted[Len(sorted)],
         median |-> sorted[((Len(sorted) - 1) \div 2) + 1]]

\* computeMedian sorts values in place and returns values[len/2]
computeMedian(values) ==
    LET sorted == SortInt64(values)
    IN  [sorted |-> sorted, min |-> sorted[1], max |-> sorted[Len(sorted)],
         median |-> sorted[(Len(sorted) \div 2) + 1]]

\* pushLevels flushing a level when it holds appoximationWindow values
RECURSIVE pushLevelsEarly(_, _, _)
pushLevelsEarly(rem, offset, value) ==
    LET level == IF Len(rem) <= offset THEN <<value>>
                 ELSE Append(rem[offset + 1], value)
    IN  IF appoximationWindow <= Len(level)
        THEN pushLevelsEarly(
                 IF Len(rem) <= offset THEN Append(rem, <<>>)
                 ELSE [rem EXCEPT ![offset + 1] = <<>>],
                 offset + 1, computeMedian(level).median)
        ELSE IF Len(rem) <= offset THEN Append(rem, level)
        ELSE [rem EXCEPT ![offset + 1] = level]

\* pushLevels leaving the overflowing level as computeMedian sorted it
RECURSIVE pushLevelsKeep(_, _, _)
pushLevelsKeep(rem, offset, value) ==
    LET level == IF Len(rem) <= offset THEN <<value>>
                 ELSE Append(rem[offset + 1], value)
    IN  IF appoximationWindow < Len(level)
        THEN pushLevelsKeep(
                 IF Len(rem) <= offset
                 THEN Append(rem, computeMedian(level).sorted)
                 ELSE [rem EXCEPT ![offset + 1] = computeMedian(level).sorted],
                 offset + 1, computeMedian(level).median)
        ELSE IF Len(rem) <= offset THEN Append(rem, level)
        ELSE [rem EXCEPT ![offset + 1] = level]

\* pushMedianValue for appoximationWindow >= 1.  The code empties the
\* overflowing level after the recursive call; the call reads and writes
\* the deeper levels only, so the level is emptied here before it.
RECURSIVE pushLevels(_, _, _)
pushLevels(rem, offset, value) ==
    LET level == IF Len(rem) <= offset THEN <<value>>
                 ELSE Append(rem[offset + 1], value)
    IN  IF appoximationWindow < Len(level)
        THEN pushLevels(
                 IF Len(rem) <= offset THEN Append(rem, <<>>)
                 ELSE [rem EXCEPT ![offset + 1] = <<>>],
                 offset + 1, computeMedian(level).median)
        ELSE IF Len(rem) <= offset THEN Append(rem, level)
        ELSE [rem EXCEPT ![offset + 1] = level]

\* a.pushMedianValue(0, value): with a window of 0 every level overflows on
\* its first value and the recursion never ends
pushMedianValue(m, value) ==
    IF appoximationWindow = 0
    THEN [m EXCEPT !.failure = "stack overflow"]
    ELSE [m EXCEPT !.remedians = pushLevels(@, 0, value)]

\* ------------------------------------------------------------------ Add
\* adjustMinMax with the Min test reading Max
adjustMinMaxWrongField(m, value) ==
    IF m.intStats.Count = 0
    THEN [m EXCEPT !.intStats.Max = value,
                   !.intStats.Min = value,
                   !.maps = Append(@, <<>>),
                   !.intStats.ValueFrequency = Len(m.maps) + 1]
    ELSE IF m.intStats.Max < value
    THEN [m EXCEPT !.intStats.Max = value]
    ELSE IF m.intStats.Max > value
    THEN [m EXCEPT !.intStats.Min = value]
    ELSE m

\* Adjust Min and Max
adjustMinMax(m, value) ==
    IF m.intStats.Count = 0
    THEN [m EXCEPT !.intStats.Max = value,
                   !.intStats.Min = value,
                   !.maps = Append(@, <<>>),
                   !.intStats.ValueFrequency = Len(m.maps) + 1]
    ELSE IF m.intStats.Max < value
    THEN [m EXCEPT !.intStats.Max = value]
    ELSE IF m.intStats.Min > value
    THEN [m EXCEPT !.intStats.Min = value]
    ELSE m

\* adjustCounts assigning the value to total instead of adding it
adjustCountsOverwrite(m, value) ==
    [m EXCEPT !.intStats.Count = Wrap(@ + 1),
              !.total = value]

\* Adjust Counts and Totals
adjustCounts(m, value) ==
    [m EXCEPT !.intStats.Count = Wrap(@ + 1),
              !.total = Wrap(@ + value)]

\* updateFrequencyDistribution counting the value that triggers the
\* initialization as well
updateFrequencyDistributionCountTrigger(m, value, conv) ==
    IF Len(SliceOf(m.slices, m.intStats.FrequencyDistribution)) > 0
    THEN incrementFrequencyDistribution(m, value, conv)
    ELSE IF m.intStats.Count = appoximationWindow
    THEN IF initializeFrequencyDistribution(m, conv).failure # "none"
         THEN initializeFrequencyDistribution(m, conv)
         ELSE incrementFrequencyDistribution(
                  initializeFrequencyDistribution(m, conv), value, conv)
    ELSE m

\* Update frequency distribution
updateFrequencyDistribution(m, value, conv) ==
    IF Len(SliceOf(m.slices, m.intStats.FrequencyDistribution)) > 0
    THEN incrementFrequencyDistribution(m, value, conv)
    ELSE IF m.intStats.Count = appoximationWindow
    THEN initializeFrequencyDistribution(m, conv)
    ELSE m

\* countValueFrequency without the limit on the number of values
countValueFrequencyUncapped(m, value) ==
    LET ref == m.intStats.ValueFrequency
        vf == m.maps[ref]
    IN  IF value \in DOMAIN vf
        THEN [m EXCEPT !.maps[ref] = [vf EXCEPT ![value] = Wrap(@ + 1)]]
        ELSE [m EXCEPT !.maps[ref] = (value :> 1) @@ vf]

\* countValueFrequency admitting a new value while the map holds
\* appoximationWindow values or fewer
countValueFrequencyInclusive(m, value) ==
    LET ref == m.intStats.ValueFrequency
        vf == m.maps[ref]
    IN  IF value \in DOMAIN vf
        THEN [m EXCEPT !.maps[ref] = [vf EXCEPT ![value] = Wrap(@ + 1)]]
        ELSE IF Cardinality(DOMAIN vf) <= appoximationWindow
        THEN [m EXCEPT !.maps[ref] = (value :> 1) @@ vf]
        ELSE m

\* Count frequencies but not more than appoximationWindow of them
countValueFrequency(m, value) ==
    LET ref == m.intStats.ValueFrequency
        vf == m.maps[ref]
    IN  IF value \in DOMAIN vf
        THEN [m EXCEPT !.maps[ref] = [vf EXCEPT ![value] = Wrap(@ + 1)]]
        ELSE IF Cardinality(DOMAIN vf) < appoximationWindow
        THEN [m EXCEPT !.maps[ref] = (value :> 1) @@ vf]
        ELSE m

\* the steps of Add in order; a failure ends the call where it happens
addSteps(m, value, conv) ==
    LET s1 == {adjustMinMax(x, value) : x \in {m}}
        s2 == {adjustCounts(x, value) : x \in s1}
        s3 == {updateFrequencyDistribution(x, value, conv) : x \in s2}
        s4 == {IF x.failure # "none" THEN x
               ELSE pushMedianValue(x, value) : x \in s3}
        s5 == {IF x.failure # "none" THEN x
               ELSE countValueFrequency(x, value) : x \in s4}
    IN  The(s5)

\* the program's variables after a call that ended in state m
Commit(m) ==
    /\ intStats' = m.intStats
    /\ remedians' = m.remedians
    /\ total' = m.total
    /\ slices' = m.slices
    /\ maps' = m.maps
    /\ failure' = m.failure
    /\ pc' = IF m.failure = "none" THEN "ready" ELSE "panicked"

Add(value) ==
    /\ pc = "ready"
    /\ \E conv \in Float2IntModes :
         \E m \in {addSteps(Machine, value, conv)} : Commit(m)
    /\ added' = Append(added, value)
    /\ lastOp' = "Add"
    /\ previous' = <<>>
    /\ NoTermFrequency
    /\ UNCHANGED <<appoximationWindow, buckets, snapshot, snapshotView,
                   observes, summarizedEarly>>

\* ------------------------------------------------------------ Summarize
\* (float64)(a.total / a.intStats.Count), Count # 0
meanOf(sum, count) == Float64(GoDiv(sum, count))

\* the loop of Summarize stopping before level 0
summarizeMedianSkipFirst(m) ==
    LET last == Len(m.remedians)
    IN  IF last <= 1 THEN m
        ELSE IF m.remedians[last] = <<>>
        THEN [m EXCEPT !.failure = "index out of range"]
        ELSE [m EXCEPT
                !.remedians[last] = computeMedian(@).sorted,
                !.intStats.Median = computeMedian(m.remedians[last]).median]

\* the loop of Summarize reading level 0 instead of the last level
summarizeMedianFirstLevel(m) ==
    IF Len(m.remedians) = 0 THEN m
    ELSE IF m.remedians[1] = <<>>
    THEN [m EXCEPT !.failure = "index out of range"]
    ELSE [m EXCEPT
            !.remedians[1] = computeMedian(@).sorted,
            !.intStats.Median = computeMedian(m.remedians[1]).median]

\* the loop of Summarize: it returns in its first iteration, so it reads
\* the last level only
summarizeMedian(m) ==
    LET last == Len(m.remedians)
    IN  IF last = 0 THEN m
        ELSE IF m.remedians[last] = <<>>
        THEN [m EXCEPT !.failure = "index out of range"]
        ELSE [m EXCEPT
                !.remedians[last] = computeMedian(@).sorted,
                !.intStats.Median = computeMedian(m.remedians[last]).median]

summarizeSteps(m, conv) ==
    LET s1 == {IF x.intStats.Count < appoximationWindow
               THEN initializeFrequencyDistribution(x, conv)
               ELSE x : x \in {m}}
        s2 == {IF x.failure # "none" THEN x
               ELSE IF x.intStats.Count = 0
               THEN [x EXCEPT !.failure = "integer divide by zero"]
               ELSE [x EXCEPT !.intStats.Mean =
                                  meanOf(x.total, x.intStats.Count)] : x \in s1}
        s3 == {IF x.failure # "none" THEN x ELSE summarizeMedian(x) : x \in s2}
    IN  The(s3)

\* what the preceding Summarize, GetStats or Print call left, if the call
\* before this one was one of them
Before ==
    IF lastOp = "Summarize"
    THEN <<View(intStats, slices, maps)>>
    ELSE <<>>

\* this Summarize, GetStats or Print call comes while Count < window
Early == intStats.Count < appoximationWindow

Summarize ==
    /\ pc = "ready"
    /\ \E conv \in Float2IntModes :
         \E m \in {summarizeSteps(Machine, conv)} : Commit(m)
    /\ observes' = observes + 1
    /\ lastOp' = "Summarize"
    /\ previous' = Before
    /\ summarizedEarly' = (summarizedEarly \/ Early)
    /\ NoTermFrequency
    /\ UNCHANGED <<appoximationWindow, buckets, snapshot, snapshotView, added>>

\* GetStats: Summarize, then return a.intStats by value (the slice header
\* and the map pointer are copied, not what they refer to).  lastOp records
\* the Summarize it ran.
GetStats ==
    /\ pc = "ready"
    /\ \E conv \in Float2IntModes :
         \E m \in {summarizeSteps(Machine, conv)} :
             /\ Commit(m)
             /\ IF m.failure = "none"
                THEN /\ snapshot' = m.intStats
                     /\ snapshotView' = View(m.intStats, m.slices, m.maps)
                ELSE UNCHANGED <<snapshot, snapshotView>>
    /\ observes' = observes + 1
    /\ lastOp' = "Summarize"
    /\ previous' = Before
    /\ summarizedEarly' = (summarizedEarly \/ Early)
    /\ NoTermFrequency
    /\ UNCHANGED <<appoximationWindow, buckets, added>>

\* Accumulator.Print: Summarize, then write a.intStats to w
AccumulatorPrint ==
    /\ pc = "ready"
    /\ \E conv \in Float2IntModes :
         \E m \in {summarizeSteps(Machine, conv)} : Commit(m)
    /\ observes' = observes + 1
    /\ lastOp' = "Summarize"
    /\ previous' = Before
    /\ summarizedEarly' = (summarizedEarly \/ Early)
    /\ NoTermFrequency
    /\ UNCHANGED <<appoximationWindow, buckets, snapshot, snapshotView, added>>

\* ----------------------------------------------------- GetTermFrequency
TopNs == -1 .. MaxTopN

\* the entries of the map as Pair values
Pairs(vf) == {[Value |-> k, Frequency |-> vf[k]] : k \in DOMAIN vf}

\* the orders in which ranging over the map can fill pl
Orderings(S) ==
    {pl \in [1 .. Cardinality(S) -> S] :
        \A i, j \in 1 .. Cardinality(S) : i # j => pl[i] # pl[j]}

\* pl as sort.Sort(pl) can leave it: ascending Frequency
SortedForward(pl) ==
    \A i \in 1 .. Len(pl) - 1 : ~(pl[i + 1].Frequency < pl[i].Frequency)

\* pl as sort.Sort(sort.Reverse(pl)) can leave it: no element is Less than
\* the one after it; the sort is not stable, so equal frequencies come in
\* any order
SortedReverse(pl) ==
    \A i \in 1 .. Len(pl) - 1 : ~(pl[i].Frequency < pl[i + 1].Frequency)

\* is.GetTermFrequency(n) on the IntStats GetStats returned last (the zero
\* IntStats before the first GetStats); pl[:topN] with a negative topN is a
\* runtime failure
GetTermFrequency(n) ==
    /\ pc = "ready"
    /\ LET vf == MapOf(maps, snapshot.ValueFrequency)
           len == Cardinality(DOMAIN vf)
           top == IF n > len THEN len ELSE n
       IN  IF top < 0
           THEN /\ pc' = "panicked"
                /\ failure' = "slice bounds out of range"
                /\ termFrequency' = <<>>
           ELSE /\ \E pl \in Orderings(Pairs(vf)) :
                     /\ SortedReverse(pl)
                     /\ termFrequency' = SubSeq(pl, 1, top)
                /\ UNCHANGED <<pc, failure>>
    /\ topN' = n
    /\ lastOp' = "GetTermFrequency"
    /\ previous' = <<>>
    /\ observes' = observes + 1
    /\ UNCHANGED <<appoximationWindow, buckets, intStats, remedians, total,
                   slices, maps, snapshot, snapshotView, added,
                   summarizedEarly>>

\* ---------------------------------------------------------- specification
\* the calls that build, feed and summarize the accumulator
Next ==
    \/ \E w \in Windows, b \in Buckets : NewAccumulator(w, b)
    \/ \E v \in Values : Len(added) < MaxAdds /\ Add(v)
    \/ observes < MaxObserve /\ Summarize
    \/ observes < MaxObserve /\ GetStats
    \/ observes < MaxObserve /\ AccumulatorPrint

Spec == Init /\ [][Next]_vars

\* A long stream: NewAccumulator(2, 1), then Add calls beyond MaxAdds
\* before the first Summarize, so that the remedian cascades
CascadeValues == {-1, MaxInt64}

CascadeAdd(value) ==
    /\ appoximationWindow = 2
    /\ buckets = 1
    /\ observes = 0
    /\ Len(added) < MaxCascadeAdds
    /\ Add(value)

NextCascade ==
    \/ Next
    \/ \E v \in CascadeValues : CascadeAdd(v)

SpecCascade == Init /\ [][NextCascade]_vars

\* The term frequencies: GetTermFrequency is a function of the IntStats it
\* is called on and changes nothing, so it is applied to the IntStats that
\* GetStats returns in the runs of an accumulator with one bucket
NextTerms ==
    \/ \E w \in Windows : NewAccumulator(w, 1)
    \/ \E v \in Values : Len(added) < MaxAdds /\ Add(v)
    \/ observes < MaxObserve /\ GetStats
    \/ \E n \in TopNs : observes < MaxObserve /\ GetTermFrequency(n)

SpecTerms == Init /\ [][NextTerms]_vars

TypeOK ==
    /\ pc \in {"new", "ready", "panicked"}
    /\ intStats.Count = Len(added)
    /\ Len(added) \in 0 .. MaxCascadeAdds

\* ------------------------------------------------------------ properties
\* the values of a sequence, its sum and the sum of a slice
Range(s) == {s[i] : i \in DOMAIN s}

RECURSIVE SumSeq(_)
SumSeq(s) == IF s = <<>> THEN 0 ELSE Head(s) + SumSeq(Tail(s))

\* the live statistics with the slice and the map read through the heaps
Live == View(intStats, slices, maps)

\* a call has returned normally
Returned(op) == pc = "ready" /\ lastOp = op

\* the accumulator was built with a positive window and bucket count
ValidConfig == pc # "new" /\ appoximationWindow >= 1 /\ buckets >= 1

\* the values counted in the histogram: buckets and both outlier counters
Binned ==
    SumSeq(Live.FrequencyDistribution) + intStats.OutlierBefore
        + intStats.OutlierAfter

\* v is the element at index k (from 0) of the ascending sort of s
IsOrderStatistic(v, s, k) ==
    /\ v \in Range(s)
    /\ Cardinality({i \in DOMAIN s : s[i] < v}) <= k
    /\ Cardinality({i \in DOMAIN s : s[i] <= v}) > k

\* C1: on an accumulator built with window >= 1 and buckets >= 1, no Add
\* call ends in a runtime failure.
C1_AddNeverFails ==
    (ValidConfig /\ lastOp = "Add") => pc # "panicked"

\* C2: after Summarize on a non-empty stream, the bucket counts plus
\* OutlierBefore plus OutlierAfter equal Count.
C2_EveryValueBinned ==
    (ValidConfig /\ Returned("Summarize") /\ added # <<>>) =>
        Binned = intStats.Count

\* C3: every field of the IntStats GetStats returned, its bucket counts and
\* value frequencies included, keeps the value it had when GetStats returned.
C3_SnapshotIndependent ==
    ValidConfig => View(snapshot, slices, maps) = snapshotView

\* C4: Summarize, GetStats or Print on an accumulator Add was never called
\* on does not crash.
C4_EmptySummarizeDoesNotCrash ==
    (ValidConfig /\ lastOp = "Summarize" /\ added = <<>>) => pc # "panicked"

\* C5: no accumulator is ever created with a non-positive window or a
\* non-positive bucket count.
C5_RejectsNonPositive ==
    pc # "new" => (appoximationWindow >= 1 /\ buckets >= 1)

\* C6: after any non-empty sequence of Add calls Min is the smallest value
\* added, Max the largest and Count the number of Add calls.
C6_MinMaxCount ==
    (Returned("Add") \/ Returned("Summarize")) /\ added # <<>> =>
        /\ intStats.Min \in Range(added)
        /\ intStats.Max \in Range(added)
        /\ \A v \in Range(added) : intStats.Min <= v /\ v <= intStats.Max
        /\ intStats.Count = Len(added)

C6_Witness ==
    /\ Returned("Add")
    /\ Len(added) = 3
    /\ added[1] = 0
    /\ intStats.Min = -1
    /\ intStats.Max = MaxInt64

\* the sum of the values added fits in an int64, and the integer quotient
\* of that sum by their number is a float64
SumFits == SumSeq(added) >= MinInt64 /\ SumSeq(added) <= MaxInt64
QuotientExact ==
    Abs(GoDiv(SumSeq(added), Len(added))) <= 2 ^ FloatBits

\* C7: after Summarize on a non-empty stream, Mean is the exact arithmetic
\* mean of the values added: Mean * Count is their sum.  Stated for the
\* streams whose sum neither overflows nor loses precision as a float64.
C7_MeanExact ==
    (ValidConfig /\ Returned("Summarize") /\ added # <<>>
        /\ SumFits /\ QuotientExact) =>
        intStats.Mean * intStats.Count = SumSeq(added)

\* C8: for a stream of n values, 1 <= n <= window, the Median after Summarize
\* is the element at index n / 2 of the ascending sort of the values added,
\* however many Summarize, GetStats or Print calls came between the Adds.
C8_MedianWithinWindow ==
    (Returned("Summarize") /\ Len(added) >= 1
        /\ Len(added) <= appoximationWindow) =>
        IsOrderStatistic(intStats.Median, added, Len(added) \div 2)

C8_Witness ==
    /\ Returned("Summarize")
    /\ observes = 2
    /\ added = <<MaxInt64, -1, 0>>
    /\ intStats.Median = 0
    /\ snapshot.Median = MaxInt64

\* C9: after Summarize on a non-empty stream of any length, Min <= Median
\* and Median <= Max.
C9_MedianWithinMinMax ==
    (Returned("Summarize") /\ added # <<>>) =>
        intStats.Min <= intStats.Median /\ intStats.Median <= intStats.Max

C9_Witness ==
    /\ Returned("Summarize")
    /\ Len(remedians) = 3
    /\ intStats.Min < intStats.Median
    /\ intStats.Median < intStats.Max

\* C10 as stated: after Summarize on any non-empty stream, Min <= Mean and
\* Mean <= Max.
C10_MeanWithinMinMax ==
    (ValidConfig /\ Returned("Summarize") /\ added # <<>>) =>
        intStats.Min <= intStats.Mean /\ intStats.Mean <= intStats.Max

\* C10 amended: after Summarize on a non-empty stream whose sum fits in an
\* int64 and whose truncated quotient sum / Count is exactly representable
\* as a float64, Min <= Mean and Mean <= Max.
C10_MeanWithinMinMaxNoOverflow ==
    (Returned("Summarize") /\ added # <<>> /\ SumFits /\ QuotientExact) =>
        intStats.Min <= intStats.Mean /\ intStats.Mean <= intStats.Max

C10_Witness ==
    /\ ValidConfig
    /\ Returned("Summarize")
    /\ intStats.Min < 0
    /\ 0 \in Range(added)
    /\ intStats.Max > 0
    /\ SumFits /\ QuotientExact
    /\ intStats.Min < intStats.Mean
    /\ intStats.Mean < intStats.Max

\* C11: on an accumulator built with window >= 1 and buckets >= 1, a
\* Summarize, GetStats or Print call that directly follows another one (no
\* Add between them) leaves every statistic as the first one left
\* it: Min, Max, Count, Mean, Median, BucketSize, starting value, bucket
\* counts, outlier counters and value frequencies.
C11_SummarizeIdempotent ==
    (ValidConfig /\ Returned("Summarize") /\ previous # <<>>) =>
        Live = previous[1]

C11_Witness ==
    /\ ValidConfig
    /\ Returned("Summarize")
    /\ previous # <<>>
    /\ Len(added) = 2
    /\ intStats.Count < appoximationWindow
    /\ Binned = 2

\* the histogram has been initialized: FrequencyDistribution is not nil
Initialized == intStats.FrequencyDistribution # Nil

\* C12: on an accumulator built with window >= 1 and buckets >= 1, once the
\* histogram has been initialized no Add, Summarize, GetStats or Print call
\* that returns changes FrequencyDistributionStartingValue or BucketSize.
C12_RangeFixedOnceInitialized ==
    [][(ValidConfig /\ Initialized /\ pc' = "ready") =>
          /\ intStats'.FrequencyDistributionStartingValue =
                 intStats.FrequencyDistributionStartingValue
          /\ intStats'.BucketSize = intStats.BucketSize]_vars

\* the number of times v occurs in s, the index of its first occurrence and
\* the number of distinct values of s before index i
Occurrences(s, v) == Cardinality({i \in DOMAIN s : s[i] = v})
FirstIndex(s, v) ==
    CHOOSE i \in DOMAIN s : s[i] = v /\ \A j \in 1 .. i - 1 : s[j] # v
DistinctBefore(s, i) == Cardinality({s[j] : j \in 1 .. i - 1})

\* the values the map counts
Tracked == DOMAIN Live.ValueFrequency

\* C13: after any sequence of Add calls ValueFrequency holds at most window
\* keys, the count stored for a key is the number of times that value has
\* been added, and the keys are the values that were first added while
\* fewer than window distinct values had been added: a value that came when
\* the map was full is not a key, whatever came later.
C13_ValueFrequencyCapped ==
    (pc = "ready" /\ added # <<>>) =>
        /\ Cardinality(Tracked) <= appoximationWindow
        /\ \A k \in Tracked :
               Live.ValueFrequency[k] = Occurrences(added, k)
        /\ Tracked =
               {v \in Range(added) :
                   DistinctBefore(added, FirstIndex(added, v))
                       < appoximationWindow}

C13_Witness ==
    /\ Returned("Add")
    /\ appoximationWindow = 2
    /\ added = <<0, -1, MaxInt64>>
    /\ Tracked = {0, -1}

\* the smaller of two numbers
Least(a, b) == IF a < b THEN a ELSE b

\* the values GetTermFrequency returned and the map it read
ReturnedValues == {termFrequency[i].Value : i \in DOMAIN termFrequency}
QueriedMap == MapOf(maps, snapshot.ValueFrequency)

\* C14: GetTermFrequency(n), n >= 0, returns min(n, number of tracked
\* values) pairs, each one a tracked value with its count, no value twice,
\* in non-increasing order of Frequency, and no tracked value left out has a
\* higher count than a returned one.
C14_TopNByFrequency ==
    (Returned("GetTermFrequency") /\ topN >= 0) =>
        /\ Len(termFrequency) = Least(topN, Cardinality(DOMAIN QueriedMap))
        /\ \A i \in DOMAIN termFrequency :
               /\ termFrequency[i].Value \in DOMAIN QueriedMap
               /\ termFrequency[i].Frequency = QueriedMap[termFrequency[i].Value]
        /\ Cardinality(ReturnedValues) = Len(termFrequency)
        /\ \A i \in 1 .. Len(termFrequency) - 1 :
               termFrequency[i].Frequency >= termFrequency[i + 1].Frequency
        /\ \A k \in DOMAIN QueriedMap \ ReturnedValues :
               \A i \in DOMAIN termFrequency :
                   QueriedMap[k] <= termFrequency[i].Frequency

C14_Witness ==
    /\ Returned("GetTermFrequency")
    /\ topN = 1
    /\ added = <<-1, 0, 0>>
    /\ termFrequency = <<[Value |-> 0, Frequency |-> 2]>>

MinOf(s) == CHOOSE v \in Range(s) : \A w \in Range(s) : v <= w

\* C16: with window >= 2 and buckets >= 1, when no Summarize, GetStats or
\* Print call came before the window-th Add, from the window-th Add onwards
\* the histogram starts at the smallest of the first window values and the
\* bucket counts plus OutlierBefore plus OutlierAfter equal Count - 1: the
\* value that triggered the initialization is not counted, every other one
\* is counted once.
C16_TriggerValueNotCounted ==
    (ValidConfig /\ appoximationWindow >= 2 /\ pc = "ready"
        /\ ~summarizedEarly /\ intStats.Count >= appoximationWindow) =>
        /\ Initialized
        /\ intStats.FrequencyDistributionStartingValue =
               MinOf(SubSeq(added, 1, appoximationWindow))
        /\ Binned = intStats.Count - 1

C16_Witness ==
    /\ Returned("Add")
    /\ ~summarizedEarly
    /\ appoximationWindow = 2
    /\ Len(added) = 5
    /\ Binned = 4
    /\ intStats.OutlierAfter > 0

\* a new accumulator, and what Add of each of values in turn and then
\* Summarize make of the one machine state in ms, with no other call
NewMachine ==
    [intStats |-> ZeroIntStats, remedians |-> <<>>, total |-> 0,
     slices |-> <<>>, maps |-> <<>>, failure |-> "none"]

RECURSIVE AddAll(_, _, _)
AddAll(ms, values, conv) ==
    IF values = <<>> THEN ms
    ELSE AddAll({IF m.failure # "none" THEN m
                 ELSE addSteps(m, Head(values), conv) : m \in ms},
                Tail(values), conv)

AddsOnly(values, conv) ==
    {IF m.failure # "none" THEN m ELSE summarizeSteps(m, conv) :
        m \in AddAll({NewMachine}, values, conv)}

\* C17: after Summarize, GetStats or Print every statistic (BucketSize,
\* starting value, bucket counts and outlier counters included) is what the
\* same Add calls followed by one Summarize give, whatever Summarize,
\* GetStats or Print calls were made between the Adds.
C17_ObservationsArePure ==
    (ValidConfig /\ Returned("Summarize") /\ added # <<>>) =>
        \E conv \in Float2IntModes :
            \E m \in AddsOnly(added, conv) :
                /\ m.failure = "none"
                /\ Live = View(m.intStats, m.slices, m.maps)

\* the number of digits of n >= 0 in base b >= 2
RECURSIVE Digits(_, _)
Digits(n, b) == IF n < b THEN 1 ELSE 1 + Digits(n \div b, b)

\* the number whose base b digits, lowest first, are the lengths of levels
RECURSIVE LengthsAsDigits(_, _)
LengthsAsDigits(levels, b) ==
    IF levels = <<>> THEN 0
    ELSE Len(Head(levels)) + b * LengthsAsDigits(Tail(levels), b)

\* C18: for window >= 1, after every Add that returns each remedian level
\* holds at most window values, the lengths of the levels are the digits of
\* Count in base window + 1, lowest level first, and there are as many
\* levels as Count has digits in that base.
C18_LevelsAreDigitsOfCount ==
    (pc = "ready" /\ appoximationWindow >= 1 /\ added # <<>>) =>
        /\ \A i \in DOMAIN remedians :
               Len(remedians[i]) <= appoximationWindow
        /\ LengthsAsDigits(remedians, appoximationWindow + 1)
               = intStats.Count
        /\ Len(remedians) = Digits(intStats.Count, appoximationWindow + 1)

C18_Witness ==
    /\ Returned("Add")
    /\ appoximationWindow = 2
    /\ intStats.Count = 9
    /\ Len(remedians) = 3
    /\ Len(remedians[1]) = 0
    /\ Len(remedians[2]) = 0
    /\ Len(remedians[3]) = 1

\* the deepest remedian level
Deepest == remedians[Len(remedians)]

\* s is in ascending order
Ascending(s) == \A i \in 1 .. Len(s) - 1 : s[i] <= s[i + 1]

\* C19: after any non-empty sequence of Add calls the deepest remedian
\* level exists and is not empty; Summarize on such a stream does not fail,
\* leaves that level sorted, and its Median is the element at index len / 2
\* of it.
C19_DeepestLevelNonEmpty ==
    /\ (pc = "ready" /\ added # <<>>) =>
           remedians # <<>> /\ Deepest # <<>>
    /\ (lastOp = "Summarize" /\ added # <<>>) =>
           /\ pc = "ready"
           /\ Ascending(Deepest)
           /\ intStats.Median = Deepest[(Len(Deepest) \div 2) + 1]

C19_Witness ==
    /\ Returned("Summarize")
    /\ intStats.Count = 6
    /\ Len(remedians) = 2
    /\ remedians[1] = <<>>
    /\ remedians[2] = <<-1, MaxInt64>>
    /\ intStats.Median = MaxInt64

\* the levels that hold between 1 and window values
Partial ==
    {i \in DOMAIN remedians :
        Len(remedians[i]) >= 1 /\ Len(remedians[i]) <= appoximationWindow}

\* C20 as stated: between Add calls at most one remedian level holds
\* between 1 and window values.
C20_OnePartialLevel ==
    (pc = "ready" /\ appoximationWindow >= 1) => Cardinality(Partial) <= 1

\* digit i (from 0) of n in base b
Digit(n, b, i) == (n \div (b ^ i)) % b

\* C20 amended: between Add calls every remedian level holds between 0 and
\* window values, and the levels that hold between 1 and window values are
\* those whose digit of Count in base window + 1 is not zero: there is one
\* such level for each non-zero digit.
C20_PartialLevelsAreNonZeroDigits ==
    (pc = "ready" /\ appoximationWindow >= 1) =>
        /\ \A i \in DOMAIN remedians :
               Len(remedians[i]) <= appoximationWindow
        /\ Partial =
               {i \in DOMAIN remedians :
                   Digit(intStats.Count, appoximationWindow + 1, i - 1) # 0}

C20_Witness ==
    /\ Returned("Add")
    /\ appoximationWindow = 2
    /\ intStats.Count = 8
    /\ Partial = {1, 2}
    /\ Len(remedians[1]) = 2
    /\ Len(remedians[2]) = 2

====
